---- MODULE Spec2Model ----
(***************************************************************************)
(* Alert tracking backend (alertviewer): the tables Endpoint, Rule,        *)
(* MitigationStrategy and Alert, and the request handlers of views.py      *)
(* that write them.  One action per handler; a request's inputs are the    *)
(* action's parameters, and the handler's response is left in resp.        *)
(***************************************************************************)
EXTENDS Integers, Sequences, FiniteSets, TLC

\* ------------------------------------------------------------------ bounds
MaxIngested == 1
MaxTime == 1
MaxRules == 2
MaxRuleList == 2
MaxStrategies == 2
MaxTriaged == 1
MaxAttached == 2
MaxRaced == 1
MaxInflight == 2
MaxReported == 2
MaxIsolated == 2
MaxStatAlerts == 2
MaxStatTime == 2
MaxWritten == 1

\* ------------------------------------------------------- values and fixtures
\* Python None / SQL NULL for text and foreign keys to User
NULL == "null"
\* SQL NULL of a DateTimeField (validated_at, resolved_at)
NULL_TIME == -1
\* SQL NULL of the mitigation_strategy foreign key
NULL_FK == 0

STATUS_CHOICES == {"open", "validated", "resolved"}
CLOSURE_CODE_CHOICES == {"NA", "TP", "FP", "TPNM"}
MITIGATION_CHOICES == {"NA", "soc", "customer"}
SEVERITY_CHOICES == {"low", "medium", "high"}

\* Customer rows (pk = index)
Customer == << [company_name |-> "Acme"], [company_name |-> "Globex"] >>
\* Source rows (pk = index)
Source == << [name |-> "SrcA"], [name |-> "SrcB"] >>
\* UserProfile rows, keyed by username
UserProfile ==
    [u \in {"ana", "cu1", "cu2"} |->
        CASE u = "ana" -> [is_analyst |-> TRUE, customer |-> NULL_FK]
          [] u = "cu1" -> [is_analyst |-> FALSE, customer |-> 1]
          [] u = "cu2" -> [is_analyst |-> FALSE, customer |-> 2]]
User == DOMAIN UserProfile

Range(s) == {s[i] : i \in DOMAIN s}

\* ------------------------------------------------------------------- state
VARIABLES
    endpoints,   \* Endpoint table: pk -> [customer, name, is_active]
    rules,       \* Rule table: sequence of [name], pk = index
    strategies,  \* MitigationStrategy table: sequence of [description]
    alerts,      \* Alert table: sequence of rows, pk = index
    now,         \* the clock read by django.utils.timezone.now()
    resp,        \* the last response: [op, status, detail]
    inflight     \* requests being served: the locals of each handler between
                 \* two of its database queries

vars == << endpoints, rules, strategies, alerts, now, resp, inflight >>

Response(op, status, detail) == [op |-> op, status |-> status, detail |-> detail]

\* ------------------------------------------------------------- permissions
IsAnalyst(u) == UserProfile[u].is_analyst
IsCustomer(u) == UserProfile[u].customer # NULL_FK
Forbidden(op) == Response(op, 403, "You do not have permission to perform this action.")
NotFound(op) == Response(op, 404, "Not found.")

\* ------------------------------------------------------------------ ingest
Err(status, detail) == [ok |-> FALSE, status |-> status, detail |-> detail]

RulesNamed(names) == {r \in DOMAIN rules : rules[r].name \in Range(names)}
SourcesNamed(n) == {s \in DOMAIN Source : Source[s].name = n}

\* AlertCreateSerializer: the declared fields are all required
FieldsValid(data) ==
    /\ data.title # NULL
    /\ data.description # NULL

\* validate without the is_active test
validate_ignoring_is_active(data) ==
    IF data.endpoint_id \notin DOMAIN endpoints
    THEN Err(404, "No Endpoint matches the given query.")
    ELSE IF SourcesNamed(data.source_name) = {}
    THEN Err(404, "No Source matches the given query.")
    ELSE IF data.customer_id \notin DOMAIN Customer
    THEN Err(404, "No Customer matches the given query.")
    ELSE IF Cardinality(RulesNamed(data.rules)) # Len(data.rules)
    THEN Err(400, "One or more rules not found.")
    ELSE [ok |-> TRUE,
          title |-> data.title,
          description |-> data.description,
          endpoint |-> data.endpoint_id,
          source |-> CHOOSE s \in SourcesNamed(data.source_name) : TRUE,
          customer |-> data.customer_id,
          rules |-> RulesNamed(data.rules)]

\* AlertCreateSerializer.validate
validate(data) ==
    IF data.endpoint_id \notin DOMAIN endpoints
    THEN Err(404, "No Endpoint matches the given query.")
    ELSE IF ~endpoints[data.endpoint_id].is_active
    THEN Err(400, "Endpoint is not active.")
    ELSE IF SourcesNamed(data.source_name) = {}
    THEN Err(404, "No Source matches the given query.")
    ELSE IF Cardinality(SourcesNamed(data.source_name)) > 1
    THEN Err(500, "MultipleObjectsReturned")
    ELSE IF data.customer_id \notin DOMAIN Customer
    THEN Err(404, "No Customer matches the given query.")
    ELSE IF Cardinality(RulesNamed(data.rules)) # Len(data.rules)
    THEN Err(400, "One or more rules not found.")
    ELSE [ok |-> TRUE,
          title |-> data.title,
          description |-> data.description,
          endpoint |-> data.endpoint_id,
          source |-> CHOOSE s \in SourcesNamed(data.source_name) : TRUE,
          customer |-> data.customer_id,
          rules |-> RulesNamed(data.rules)]

\* create taking the customer from the endpoint instead of the submission
create_for_endpoint_customer(validated_data) ==
    [title |-> validated_data.title,
     description |-> validated_data.description,
     timestamp |-> now,
     endpoint |-> validated_data.endpoint,
     source |-> validated_data.source,
     customer |-> endpoints[validated_data.endpoint].customer,
     validator |-> NULL,
     validated_at |-> NULL_TIME,
     status |-> "open",
     closure_code |-> "NA",
     mitigation_strategy |-> NULL_FK,
     mitigation |-> "NA",
     resolved_at |-> NULL_TIME,
     resolver |-> NULL,
     rules |-> validated_data.rules,
     severity |-> "low"]

\* AlertCreateSerializer.create: Alert.objects.create(...), then alert.rules.set(rules)
create(validated_data) ==
    [title |-> validated_data.title,
     description |-> validated_data.description,
     timestamp |-> now,
     endpoint |-> validated_data.endpoint,
     source |-> validated_data.source,
     customer |-> validated_data.customer,
     validator |-> NULL,
     validated_at |-> NULL_TIME,
     status |-> "open",
     closure_code |-> "NA",
     mitigation_strategy |-> NULL_FK,
     mitigation |-> "NA",
     resolved_at |-> NULL_TIME,
     resolver |-> NULL,
     rules |-> validated_data.rules,
     severity |-> "low"]

\* POST /receive/ by an authenticated caller
ReceiveAlertView_create(data) ==
    /\ UNCHANGED << endpoints, rules, strategies, now, inflight >>
    /\ IF ~FieldsValid(data)
       THEN /\ resp' = Response("receive", 400, "This field is required.")
            /\ UNCHANGED alerts
       ELSE LET v == validate(data) IN
            IF ~v.ok
            THEN /\ resp' = Response("receive", v.status, v.detail)
                 /\ UNCHANGED alerts
            ELSE /\ alerts' = Append(alerts, create(v))
                 /\ resp' = Response("receive", 201, "created")

\* ------------------------------------------------- analyst: alert detail
\* str.strip() as applied by the serializer's CharField (trim_whitespace)
RECURSIVE LStrip(_)
LStrip(s) == IF s # << >> /\ Head(s) = " " THEN LStrip(Tail(s)) ELSE s
RECURSIVE RStrip(_)
RStrip(s) == IF s # << >> /\ s[Len(s)] = " " THEN RStrip(SubSeq(s, 1, Len(s) - 1)) ELSE s
Strip(s) == RStrip(LStrip(s))

\* MitigationStrategy.objects.filter(description=d).first(): a pk, or NULL_FK
FirstStrategy(d) ==
    LET hits == {i \in DOMAIN strategies : strategies[i].description = d} IN
    IF hits = {} THEN NULL_FK ELSE CHOOSE i \in hits : \A j \in hits : i <= j

\* POST /alerts/all/{pk}/ with body {description}; an absent description and
\* an empty one are both the empty sequence (both fail `not mitigation_data`)
AlertDetailView_post(u, pk, description) ==
    /\ UNCHANGED << endpoints, rules, now, inflight >>
    /\ IF ~IsAnalyst(u)
       THEN resp' = Forbidden("attach") /\ UNCHANGED << alerts, strategies >>
       ELSE IF pk \notin DOMAIN alerts
       THEN resp' = NotFound("attach") /\ UNCHANGED << alerts, strategies >>
       ELSE IF description = << >>
       THEN /\ resp' = Response("attach", 400, "Mitigation strategy description is required.")
            /\ UNCHANGED << alerts, strategies >>
       ELSE IF Strip(description) = << >>
       THEN /\ resp' = Response("attach", 400, "This field may not be blank.")
            /\ UNCHANGED << alerts, strategies >>
       ELSE IF FirstStrategy(description) = NULL_FK
       THEN /\ Len(strategies) < MaxStrategies
            /\ strategies' = Append(strategies, [description |-> Strip(description)])
            /\ alerts' = [alerts EXCEPT ![pk].mitigation_strategy = Len(strategies) + 1]
            /\ resp' = Response("attach", 201, "Mitigation strategy created and linked to alert.")
       ELSE /\ alerts' = [alerts EXCEPT ![pk].mitigation_strategy = FirstStrategy(description)]
            /\ resp' = Response("attach", 201, "Mitigation strategy created and linked to alert.")
            /\ UNCHANGED strategies

\* a test for presence only
ValidClosureCode_if_present(closure_code) == closure_code # NULL

\* `closure_code in dict(Alert.CLOSURE_CODE_CHOICES).keys()`
ValidClosureCode(closure_code) == closure_code \in CLOSURE_CODE_CHOICES

\* the assignments without the validator
Validated_without_validator(alert, u, closure_code) ==
    [alert EXCEPT !.closure_code = closure_code,
                  !.status = "validated",
                  !.validated_at = now]

\* the four assignments of AlertDetailView.patch
Validated(alert, u, closure_code) ==
    [alert EXCEPT !.closure_code = closure_code,
                  !.status = "validated",
                  !.validator = u,
                  !.validated_at = now]

\* PATCH /alerts/all/{pk}/ with body {closure_code}; NULL is an absent code
AlertDetailView_patch(u, pk, closure_code) ==
    /\ UNCHANGED << endpoints, rules, strategies, now, inflight >>
    /\ IF ~IsAnalyst(u)
       THEN resp' = Forbidden("closure") /\ UNCHANGED alerts
       ELSE IF ~ValidClosureCode(closure_code)
       THEN resp' = Response("closure", 400, "Invalid closure code.") /\ UNCHANGED alerts
       ELSE IF pk \notin DOMAIN alerts
       THEN resp' = NotFound("closure") /\ UNCHANGED alerts
       ELSE /\ alerts' = [alerts EXCEPT ![pk] = Validated(alerts[pk], u, closure_code)]
            /\ resp' = Response("closure", 200, "Closure code updated successfully.")

\* AlertSerializer: the model fields it accepts on write (the nested and
\* source= fields are read_only, timestamp is auto_now_add)
AlertWritable ==
    {"title", "description", "status", "closure_code", "mitigation", "severity",
     "validator", "validated_at", "resolver", "resolved_at"}

\* serializer.is_valid() of a full (partial=False) update
AlertBodyValid(body) ==
    /\ {"title", "description"} \subseteq DOMAIN body
    /\ "status" \in DOMAIN body => body.status \in STATUS_CHOICES
    /\ "closure_code" \in DOMAIN body => body.closure_code \in CLOSURE_CODE_CHOICES
    /\ "mitigation" \in DOMAIN body => body.mitigation \in MITIGATION_CHOICES
    /\ "severity" \in DOMAIN body => body.severity \in SEVERITY_CHOICES
    /\ "validator" \in DOMAIN body => body.validator \in User \cup {NULL}
    /\ "resolver" \in DOMAIN body => body.resolver \in User \cup {NULL}

\* ModelSerializer.update: setattr for every validated field, then save
Updated(row, body, writable) ==
    [f \in DOMAIN row |-> IF f \in DOMAIN body /\ f \in writable THEN body[f] ELSE row[f]]

\* PUT /alerts/all/{pk}/: RetrieveUpdateAPIView.put, which AlertDetailView
\* inherits and does not override
AlertDetailView_put(u, pk, body) ==
    /\ UNCHANGED << endpoints, rules, strategies, now, inflight >>
    /\ IF ~IsAnalyst(u)
       THEN resp' = Forbidden("update") /\ UNCHANGED alerts
       ELSE IF pk \notin DOMAIN alerts
       THEN resp' = NotFound("update") /\ UNCHANGED alerts
       ELSE IF ~AlertBodyValid(body)
       THEN resp' = Response("update", 400, "invalid") /\ UNCHANGED alerts
       ELSE /\ alerts' = [alerts EXCEPT ![pk] = Updated(alerts[pk], body, AlertWritable)]
            /\ resp' = Response("update", 200, "updated")

\* ---------------------------------------- customer: non-malicious alerts
\* the TPNM filter without the customer filter
NonMalicious_of_any_customer(u) ==
    {pk \in DOMAIN alerts : alerts[pk].closure_code = "TPNM"}

\* NonMaliciousUpdateResolveView.get_queryset
NonMalicious(u) ==
    {pk \in DOMAIN alerts :
        /\ alerts[pk].customer = UserProfile[u].customer
        /\ alerts[pk].closure_code = "TPNM"}

\* `mitigation and mitigation not in dict(Alert.MITIGATION_CHOICES)`
InvalidMitigation(mitigation) ==
    /\ mitigation \notin {NULL, ""}
    /\ mitigation \notin MITIGATION_CHOICES

\* PATCH /alerts/non-malicious/{pk}/ with body {mitigation}; NULL is an
\* absent value, which save() sends to a NOT NULL column
NonMaliciousUpdateResolveView_patch(u, pk, mitigation) ==
    /\ UNCHANGED << endpoints, rules, strategies, now, inflight >>
    /\ IF ~IsCustomer(u)
       THEN resp' = Forbidden("select") /\ UNCHANGED alerts
       ELSE IF pk \notin NonMalicious(u)
       THEN resp' = NotFound("select") /\ UNCHANGED alerts
       ELSE IF InvalidMitigation(mitigation)
       THEN resp' = Response("select", 400, "Invalid mitigation strategy.") /\ UNCHANGED alerts
       ELSE IF mitigation = NULL
       THEN resp' = Response("select", 500, "IntegrityError") /\ UNCHANGED alerts
       ELSE /\ alerts' = [alerts EXCEPT ![pk].mitigation = mitigation]
            /\ resp' = Response("select", 200, "alert")

\* the assignments guarded so that only the first resolve stamps
Resolved_once(alert, u) ==
    IF alert.resolved_at # NULL_TIME
    THEN [alert EXCEPT !.status = "resolved"]
    ELSE [alert EXCEPT !.status = "resolved", !.resolver = u, !.resolved_at = now]

\* the three assignments of NonMaliciousUpdateResolveView.put
Resolved(alert, u) ==
    [alert EXCEPT !.status = "resolved", !.resolver = u, !.resolved_at = now]

\* PUT /alerts/non-malicious/{pk}/
NonMaliciousUpdateResolveView_put(u, pk) ==
    /\ UNCHANGED << endpoints, rules, strategies, now, inflight >>
    /\ IF ~IsCustomer(u)
       THEN resp' = Forbidden("resolve") /\ UNCHANGED alerts
       ELSE IF pk \notin NonMalicious(u)
       THEN resp' = NotFound("resolve") /\ UNCHANGED alerts
       ELSE /\ alerts' = [alerts EXCEPT ![pk] = Resolved(alerts[pk], u)]
            /\ resp' = Response("resolve", 200, "Alert marked as resolved.")

\* -------------------------------------------- customer: alert listings
\* AlertFilter on status and closure_code: NULL is a parameter not supplied
AlertFilter(pks, status, closure_code) ==
    {pk \in pks :
        /\ status = NULL \/ alerts[pk].status = status
        /\ closure_code = NULL \/ alerts[pk].closure_code = closure_code}

\* GET /alerts/?status=&closure_code=&timestamp_before=&timestamp_after=:
\* get_queryset scopes to the caller's customer and hands the raw
\* timestamp texts to filter(), which raises ValidationError on a text that
\* is no datetime; the response lists the pks of the rows
CustomerAlertListView_get(u, status, closure_code, timestamp_before, timestamp_after) ==
    /\ UNCHANGED << endpoints, rules, strategies, alerts, now, inflight >>
    /\ IF ~IsCustomer(u)
       THEN resp' = Forbidden("list")
       ELSE IF \/ timestamp_before # NULL /\ timestamp_before \notin {"0", "1", "2", "3"}
               \/ timestamp_after # NULL /\ timestamp_after \notin {"0", "1", "2", "3"}
       THEN resp' = Response("list", 500, "ValidationError")
       ELSE LET queryset ==
                    {pk \in DOMAIN alerts :
                        /\ alerts[pk].customer = UserProfile[u].customer
                        /\ timestamp_before = NULL
                           \/ alerts[pk].timestamp <= (CASE timestamp_before = "0" -> 0
                                                          [] timestamp_before = "1" -> 1
                                                          [] timestamp_before = "2" -> 2
                                                          [] timestamp_before = "3" -> 3)
                        /\ timestamp_after = NULL
                           \/ alerts[pk].timestamp >= (CASE timestamp_after = "0" -> 0
                                                          [] timestamp_after = "1" -> 1
                                                          [] timestamp_after = "2" -> 2
                                                          [] timestamp_after = "3" -> 3)}
            IN resp' = Response("list", 200, AlertFilter(queryset, status, closure_code))

\* GET /alerts/non-malicious/: the caller's customer's TPNM alerts
NonMaliciousListView_get(u) ==
    /\ UNCHANGED << endpoints, rules, strategies, alerts, now, inflight >>
    /\ IF ~IsCustomer(u)
       THEN resp' = Forbidden("nonmalicious")
       ELSE resp' = Response("nonmalicious", 200,
                             {pk \in DOMAIN alerts :
                                 /\ alerts[pk].closure_code = "TPNM"
                                 /\ alerts[pk].customer = UserProfile[u].customer})

\* --------------------------------- alert writes, query by query
\* A request that has loaded its alert (get_object) and not yet saved it: the
\* handler's locals.  closure_code and description are NULL and << >> where
\* the request carries none.
Loaded(op, u, pk, closure_code, description) ==
    [op |-> op, u |-> u, pk |-> pk, closure_code |-> closure_code,
     description |-> description, alert |-> alerts[pk]]

\* AlertDetailView.post up to `alert = self.get_object()`
AlertDetailView_post_get_object(u, pk, description) ==
    IF IsAnalyst(u) /\ pk \in DOMAIN alerts
    THEN /\ Cardinality(inflight) < MaxInflight
         /\ inflight' = inflight \cup {Loaded("attach", u, pk, NULL, description)}
         /\ UNCHANGED << endpoints, rules, strategies, alerts, now, resp >>
    ELSE AlertDetailView_post(u, pk, description)

\* AlertDetailView.post after get_object: validate the description, find or
\* create the strategy, alert.save() (a save writes every column of the row)
AlertDetailView_post_save(r) ==
    /\ r \in inflight /\ r.op = "attach"
    /\ inflight' = inflight \ {r}
    /\ UNCHANGED << endpoints, rules, now >>
    /\ IF r.description = << >>
       THEN /\ resp' = Response("attach", 400, "Mitigation strategy description is required.")
            /\ UNCHANGED << alerts, strategies >>
       ELSE IF Strip(r.description) = << >>
       THEN /\ resp' = Response("attach", 400, "This field may not be blank.")
            /\ UNCHANGED << alerts, strategies >>
       ELSE IF FirstStrategy(r.description) = NULL_FK
       THEN /\ Len(strategies) < MaxStrategies
            /\ strategies' = Append(strategies, [description |-> Strip(r.description)])
            /\ alerts' = [alerts EXCEPT
                             ![r.pk] = [r.alert EXCEPT !.mitigation_strategy = Len(strategies) + 1]]
            /\ resp' = Response("attach", 201, "Mitigation strategy created and linked to alert.")
       ELSE /\ alerts' = [alerts EXCEPT
                             ![r.pk] = [r.alert EXCEPT
                                          !.mitigation_strategy = FirstStrategy(r.description)]]
            /\ resp' = Response("attach", 201, "Mitigation strategy created and linked to alert.")
            /\ UNCHANGED strategies

\* AlertDetailView.patch up to `alert = self.get_object()`
AlertDetailView_patch_get_object(u, pk, closure_code) ==
    IF IsAnalyst(u) /\ ValidClosureCode(closure_code) /\ pk \in DOMAIN alerts
    THEN /\ Cardinality(inflight) < MaxInflight
         /\ inflight' = inflight \cup {Loaded("closure", u, pk, closure_code, << >>)}
         /\ UNCHANGED << endpoints, rules, strategies, alerts, now, resp >>
    ELSE AlertDetailView_patch(u, pk, closure_code)

\* AlertDetailView.patch after get_object: the four assignments, alert.save()
AlertDetailView_patch_save(r) ==
    /\ r \in inflight /\ r.op = "closure"
    /\ inflight' = inflight \ {r}
    /\ alerts' = [alerts EXCEPT ![r.pk] = Validated(r.alert, r.u, r.closure_code)]
    /\ resp' = Response("closure", 200, "Closure code updated successfully.")
    /\ UNCHANGED << endpoints, rules, strategies, now >>

\* NonMaliciousUpdateResolveView.put up to `alert = self.get_object()`
NonMaliciousUpdateResolveView_put_get_object(u, pk) ==
    IF IsCustomer(u) /\ pk \in NonMalicious(u)
    THEN /\ Cardinality(inflight) < MaxInflight
         /\ inflight' = inflight \cup {Loaded("resolve", u, pk, NULL, << >>)}
         /\ UNCHANGED << endpoints, rules, strategies, alerts, now, resp >>
    ELSE NonMaliciousUpdateResolveView_put(u, pk)

\* NonMaliciousUpdateResolveView.put after get_object: the three
\* assignments, alert.save()
NonMaliciousUpdateResolveView_put_save(r) ==
    /\ r \in inflight /\ r.op = "resolve"
    /\ inflight' = inflight \ {r}
    /\ alerts' = [alerts EXCEPT ![r.pk] = Resolved(r.alert, r.u)]
    /\ resp' = Response("resolve", 200, "Alert marked as resolved.")
    /\ UNCHANGED << endpoints, rules, strategies, now >>

\* -------------------------------------------------------------- endpoints
\* EndpointSerializer (fields = '__all__'): the fields a body may carry here
EndpointWritable == {"name", "is_active"}

\* serializer.is_valid() of a partial update: a CharField may not be blank
EndpointBodyValid(body) == "name" \in DOMAIN body => body.name # ""

\* endpoint.is_active = False; endpoint.save()
Deactivated(endpoint) == [endpoint EXCEPT !.is_active = FALSE]

\* PATCH /endpoints/{company_name}/{pk}/: update() saves the deactivation,
\* then super().update() validates the body and saves its fields (the first
\* save is not rolled back by a rejected body: requests are not atomic)
EndpointDetailView_update(u, pk, body) ==
    /\ UNCHANGED << rules, strategies, alerts, now, inflight >>
    /\ IF ~IsAnalyst(u)
       THEN resp' = Forbidden("endpoint") /\ UNCHANGED endpoints
       ELSE IF pk \notin DOMAIN endpoints
       THEN resp' = NotFound("endpoint") /\ UNCHANGED endpoints
       ELSE IF ~EndpointBodyValid(body)
       THEN /\ endpoints' = [endpoints EXCEPT ![pk] = Deactivated(endpoints[pk])]
            /\ resp' = Response("endpoint", 400, "This field may not be blank.")
       ELSE /\ endpoints' = [endpoints EXCEPT
                                ![pk] = Updated(Deactivated(endpoints[pk]), body, EndpointWritable)]
            /\ resp' = Response("endpoint", 200, "endpoint")

\* ------------------------------------------------- ingest, step by step
\* ReceiveAlertView.create up to the end of serializer.is_valid(): validate
\* has read the endpoint row and found it active; the validated data are
\* locals of the request until serializer.save()
ReceiveAlertView_create_is_valid(data) ==
    IF FieldsValid(data) /\ validate(data).ok
    THEN /\ Cardinality(inflight) < MaxInflight
         /\ inflight' = inflight \cup {[op |-> "receive", validated_data |-> validate(data)]}
         /\ UNCHANGED << endpoints, rules, strategies, alerts, now, resp >>
    ELSE ReceiveAlertView_create(data)

\* ReceiveAlertView.create from serializer.save() on: Alert.objects.create
\* with the endpoint validated earlier; the endpoint row is not read again
ReceiveAlertView_create_save(r) ==
    /\ r \in inflight /\ r.op = "receive"
    /\ inflight' = inflight \ {r}
    /\ alerts' = Append(alerts, create(r.validated_data))
    /\ resp' = Response("receive", 201, "created")
    /\ UNCHANGED << endpoints, rules, strategies, now >>

\* ------------------------------------------------ dashboards and reports
\* Customer.objects.filter(company_name=company_name), as a set of pks
CustomersNamed(company_name) ==
    {c \in DOMAIN Customer : Customer[c].company_name = company_name}

\* queryset.filter(is_active=...).count() over Endpoint.objects.filter(customer=customer)
EndpointCount(customer, is_active) ==
    Cardinality({e \in DOMAIN endpoints :
                    endpoints[e].customer = customer /\ endpoints[e].is_active = is_active})

\* queryset.filter(is_active=False).count()
inactive_count(customer) == EndpointCount(customer, FALSE)

\* a count over Endpoint.objects.all(), without the customer filter
total_endpoints_of_all(customer) == Cardinality(DOMAIN endpoints)

\* queryset.count()
total_endpoints(customer) ==
    Cardinality({e \in DOMAIN endpoints : endpoints[e].customer = customer})

\* GET /dashboard/{company_name}/endpoints/ up to the first count:
\* get_queryset (the customer lookup on the analyst path), active_count
CustomerEndpointDashboardView_get_active(u, company_name) ==
    IF IsAnalyst(u) /\ CustomersNamed(company_name) = {}
    THEN /\ resp' = Response("stats", 404, "Customer not found.")
         /\ UNCHANGED << endpoints, rules, strategies, alerts, now, inflight >>
    ELSE LET customer ==
                 IF IsAnalyst(u)
                 THEN CHOOSE c \in CustomersNamed(company_name) : TRUE
                 ELSE UserProfile[u].customer
         IN /\ Cardinality(inflight) < MaxInflight
            /\ inflight' = inflight \cup
                   {[op |-> "stats", pc |-> "inactive", customer |-> customer,
                     active_count |-> EndpointCount(customer, TRUE), inactive_count |-> 0]}
            /\ UNCHANGED << endpoints, rules, strategies, alerts, now, resp >>

\* the second count: inactive_count
CustomerEndpointDashboardView_get_inactive(r) ==
    /\ r \in inflight /\ r.op = "stats" /\ r.pc = "inactive"
    /\ inflight' = (inflight \ {r}) \cup
           {[r EXCEPT !.pc = "total", !.inactive_count = inactive_count(r.customer)]}
    /\ UNCHANGED << endpoints, rules, strategies, alerts, now, resp >>

\* the third count, queryset.count(), and the response
CustomerEndpointDashboardView_get_total(r) ==
    /\ r \in inflight /\ r.op = "stats" /\ r.pc = "total"
    /\ inflight' = inflight \ {r}
    /\ resp' = Response("stats", 200,
                        [total_endpoints |-> total_endpoints(r.customer),
                         active_endpoints |-> r.active_count,
                         inactive_endpoints |-> r.inactive_count])
    /\ UNCHANGED << endpoints, rules, strategies, alerts, now >>

\* The clock counts half days.  The query strings used here are the ISO
\* texts of the instants 0..3; datetime.fromisoformat raises ValueError on
\* any other text.
Iso == [s \in {"0", "1", "2", "3"} |->
          CASE s = "0" -> 0 [] s = "1" -> 1 [] s = "2" -> 2 [] s = "3" -> 3]
ParsesAsIso(s) == s \in DOMAIN Iso
fromisoformat(s) == Iso[s]

\* the try block: both texts parse (NULL is an absent parameter, whose
\* default is an isoformat() text)
BoundsValid(after, before) ==
    /\ after = NULL \/ ParsesAsIso(after)
    /\ before = NULL \/ ParsesAsIso(before)

\* query_params.get('after', (now() - timedelta(days=7)).isoformat()), parsed
After(after) == IF after = NULL THEN now - 14 ELSE fromisoformat(after)
\* query_params.get('before', now().isoformat()), parsed
Before(before) == IF before = NULL THEN now ELSE fromisoformat(before)

\* TruncDate('timestamp'), and strftime('%Y-%m-%d') of the day
TruncDate(t) == t \div 2
strftime(day) == << "day0", "day1", "day2" >>[day + 1]

\* the window with an exclusive upper bound (timestamp__lt)
CustomerAlertDashboardView_get_queryset_lt(customer, after, before) ==
    {pk \in DOMAIN alerts :
        /\ alerts[pk].customer = customer
        /\ alerts[pk].timestamp >= after
        /\ alerts[pk].timestamp < before}

\* Alert.objects.filter(customer=customer, timestamp__gte=after,
\* timestamp__lte=before), as a set of pks
CustomerAlertDashboardView_get_queryset(customer, after, before) ==
    {pk \in DOMAIN alerts :
        /\ alerts[pk].customer = customer
        /\ alerts[pk].timestamp >= after
        /\ alerts[pk].timestamp <= before}

\* .values(key).annotate(count=Count(...)): one (key, count) pair per key
\* value present among the rows (the counted columns are NOT NULL)
severity_stats(pks) ==
    [k \in {alerts[pk].severity : pk \in pks} |->
        Cardinality({pk \in pks : alerts[pk].severity = k})]

event_counts(pks) ==
    [k \in {strftime(TruncDate(alerts[pk].timestamp)) : pk \in pks} |->
        Cardinality({pk \in pks : strftime(TruncDate(alerts[pk].timestamp)) = k})]

source_stats(pks) ==
    [k \in {Source[alerts[pk].source].name : pk \in pks} |->
        Cardinality({pk \in pks : Source[alerts[pk].source].name = k})]

status_stats(pks) ==
    [k \in {alerts[pk].status : pk \in pks} |->
        Cardinality({pk \in pks : alerts[pk].status = k})]

\* GET /dashboard/{company_name}/alerts/ up to the end of the try block: no
\* query has run yet
CustomerAlertDashboardView_get_parse(u, company_name, after, before) ==
    IF ~BoundsValid(after, before)
    THEN /\ resp' = Response("alertstats", 400, "Invalid datetime format.")
         /\ UNCHANGED << endpoints, rules, strategies, alerts, now, inflight >>
    ELSE /\ Cardinality(inflight) < MaxInflight
         /\ inflight' = inflight \cup
                {[op |-> "alertstats", u |-> u, company_name |-> company_name,
                  after |-> After(after), before |-> Before(before), queries |-> 0]}
         /\ UNCHANGED << endpoints, rules, strategies, alerts, now, resp >>

\* the rest of the handler: get_queryset (the customer lookup on the analyst
\* path), the four groupings, the response
CustomerAlertDashboardView_get_query(r) ==
    /\ r \in inflight /\ r.op = "alertstats"
    /\ inflight' = inflight \ {r}
    /\ UNCHANGED << endpoints, rules, strategies, alerts, now >>
    /\ IF IsAnalyst(r.u) /\ CustomersNamed(r.company_name) = {}
       THEN resp' = Response("alertstats", 404, "Customer not found.")
       ELSE LET customer == IF IsAnalyst(r.u)
                            THEN CHOOSE c \in CustomersNamed(r.company_name) : TRUE
                            ELSE UserProfile[r.u].customer
                pks == CustomerAlertDashboardView_get_queryset(customer, r.after, r.before)
            IN resp' = Response("alertstats", 200,
                                [severity_stats |-> severity_stats(pks),
                                 event_counts |-> event_counts(pks),
                                 source_stats |-> source_stats(pks),
                                 status_stats |-> status_stats(pks)])

\* GET /pdf-report/?company_name=&after=&before= up to the customer: the
\* analyst path reads kwargs.get('company_name'), which the route never
\* supplies (None), so the company_name of the query string is not looked at;
\* is_analyst and the customer lookup have each queried the database
PDFReportView_get_customer(u, company_name, after, before) ==
    IF IsAnalyst(u) /\ CustomersNamed(NULL) = {}
    THEN /\ resp' = Response("pdf", 404, "Customer not found.")
         /\ UNCHANGED << endpoints, rules, strategies, alerts, now, inflight >>
    ELSE /\ Cardinality(inflight) < MaxInflight
         /\ inflight' = inflight \cup
                {[op |-> "pdf", u |-> u,
                  customer |-> IF IsAnalyst(u)
                               THEN CHOOSE c \in CustomersNamed(NULL) : TRUE
                               ELSE UserProfile[u].customer,
                  after_text |-> after, before_text |-> before, queries |-> 2]}
         /\ UNCHANGED << endpoints, rules, strategies, alerts, now, resp >>

\* the rest of the handler: parse the bounds, query, severity_data.pop(1),
\* build the document
PDFReportView_get_report(r) ==
    /\ r \in inflight /\ r.op = "pdf"
    /\ inflight' = inflight \ {r}
    /\ UNCHANGED << endpoints, rules, strategies, alerts, now >>
    /\ IF ~BoundsValid(r.after_text, r.before_text)
       THEN resp' = Response("pdf", 400, "Invalid date format. Use ISO 8601 format.")
       ELSE LET pks == CustomerAlertDashboardView_get_queryset(
                           r.customer, After(r.after_text), Before(r.before_text))
            IN IF Cardinality(DOMAIN severity_stats(pks)) < 2
               THEN resp' = Response("pdf", 500, "IndexError: pop index out of range")
               ELSE resp' = Response("pdf", 200, "application/pdf")

\* ------------------------------------------------------------ environment
\* the Django admin site registers Rule: an administrator adds a row
AdminAddRule(name) ==
    /\ Len(rules) < MaxRules
    /\ rules' = Append(rules, [name |-> name])
    /\ resp' = Response("admin", 200, "rule")
    /\ UNCHANGED << endpoints, strategies, alerts, now, inflight >>

\* time passes between requests
Tick ==
    /\ now < MaxTime
    /\ now' = now + 1
    /\ UNCHANGED << endpoints, rules, strategies, alerts, resp, inflight >>

Init ==
    /\ endpoints = [e \in {1, 2} |-> [customer |-> e, name |-> "host", is_active |-> TRUE]]
    /\ rules = << >>
    /\ strategies = << >>
    /\ alerts = << >>
    /\ now = 0
    /\ resp = Response("none", 0, "")
    /\ inflight = {}

\* ------------------------------------------------------- request inputs
RuleNames == {"RuleA", "RuleB"}
RuleLists == UNION {[1..n -> RuleNames] : n \in 0..MaxRuleList}

\* submissions to /receive/: ids and names that exist and ones that do not
IngestData ==
    [title : {"t"}, description : {"d"},
     endpoint_id : {1, 2, 3}, source_name : {"SrcB"},
     customer_id : {1}, rules : RuleLists]
    \cup [title : {"t"}, description : {"d", NULL},
          endpoint_id : {1, 2, 3}, source_name : {"SrcB", "SrcX"},
          customer_id : {1, 3}, rules : {<< >>}]

\* the submissions of one monitoring source that names no rules
PlainData ==
    [title : {"t"}, description : {"d"},
     endpoint_id : {1}, source_name : {"SrcA"},
     customer_id : {1}, rules : {<< >>}]

AlertPks == 1..(MaxTriaged + 1)
ClosureInputs == CLOSURE_CODE_CHOICES \cup {"XX", NULL}
MitigationInputs == MITIGATION_CHOICES \cup {"XX", "", NULL}
DescriptionInputs == {<< >>, <<"a">>}
\* descriptions as typed into a form: absent, plain, with a leading blank, blank
AttachDescriptions == {<< >>, <<"a">>, <<" ", "a">>, <<"b">>, <<" ">>}

Required == [title |-> "t", description |-> "d"]
\* bodies of a PUT on the analyst alert detail
AlertBodies ==
    {Required, [description |-> "d"]}
    \cup {Required @@ [status |-> v] : v \in {"open", "resolved", "XX"}}
    \cup {Required @@ [closure_code |-> "TP"]}
    \cup {Required @@ [mitigation |-> "soc"]}
    \cup {Required @@ [mitigation_strategy |-> 1]}
    \cup {Required @@ [validated_at |-> NULL_TIME]}

\* bodies of a PATCH on the endpoint detail
EndpointBodies ==
    {<< >>, [is_active |-> TRUE], [is_active |-> FALSE], [name |-> ""]}

\* -------------------------------------------------------- specifications
\* ingestion and endpoint management
NextIngest ==
    \/ \E data \in IngestData : Len(alerts) < MaxIngested /\ ReceiveAlertView_create(data)
    \/ \E u \in User, pk \in {1, 2, 3}, body \in EndpointBodies :
          EndpointDetailView_update(u, pk, body)
    \/ \E name \in RuleNames : AdminAddRule(name)

SpecIngest == Init /\ [][NextIngest]_vars

\* analyst triage and customer resolution
NextTriage ==
    \/ \E data \in PlainData : Len(alerts) < MaxTriaged /\ ReceiveAlertView_create(data)
    \/ \E u \in User, pk \in AlertPks, c \in ClosureInputs : AlertDetailView_patch(u, pk, c)
    \/ \E u \in User, pk \in AlertPks : NonMaliciousUpdateResolveView_put(u, pk)
    \/ Tick

SpecTriage == Init /\ [][NextTriage]_vars

\* analysts attaching mitigation strategies to alerts
NextAttach ==
    \/ \E data \in PlainData : Len(alerts) < MaxAttached /\ ReceiveAlertView_create(data)
    \/ \E u \in User, pk \in 1..(MaxAttached + 1), d \in AttachDescriptions :
          AlertDetailView_post(u, pk, d)

SpecAttach == Init /\ [][NextAttach]_vars

\* requests on one alert served by concurrent workers: any number of other
\* requests may run between a handler's get_object and its save
NextRace ==
    \/ \E data \in PlainData : Len(alerts) < MaxRaced /\ ReceiveAlertView_create(data)
    \/ \E u \in User, pk \in 1..(MaxRaced + 1), d \in DescriptionInputs :
          AlertDetailView_post_get_object(u, pk, d)
    \/ \E u \in User, pk \in 1..(MaxRaced + 1), c \in {"TPNM", "FP", "XX"} :
          AlertDetailView_patch_get_object(u, pk, c)
    \/ \E u \in User, pk \in 1..(MaxRaced + 1) :
          NonMaliciousUpdateResolveView_put_get_object(u, pk)
    \/ \E r \in inflight : AlertDetailView_post_save(r)
    \/ \E r \in inflight : AlertDetailView_patch_save(r)
    \/ \E r \in inflight : NonMaliciousUpdateResolveView_put_save(r)

SpecRace == Init /\ [][NextRace]_vars

\* query parameters of the listing, dashboard and report requests
CompanyNames == {"Acme", "Nope"}
BoundTexts == {NULL, "0", "x"}

\* submissions for either customer
IsolationData ==
    [title : {"t"}, description : {"d"},
     endpoint_id : {1}, source_name : {"SrcA"},
     customer_id : {1, 2}, rules : {<< >>}]

\* filters of a listing request: status, closure_code, timestamp_before
ListFilters ==
    {<<NULL, NULL, NULL>>, <<"open", NULL, "0">>, <<NULL, "TPNM", NULL>>,
     <<"open", "TPNM", NULL>>, <<NULL, NULL, "x">>}

\* two customers' users working on the alerts of both customers
NextIsolation ==
    \/ \E data \in IsolationData : Len(alerts) < MaxIsolated /\ ReceiveAlertView_create(data)
    \/ \E pk \in 1..MaxIsolated : AlertDetailView_patch("ana", pk, "TPNM")
    \/ \E u \in User, pk \in 1..(MaxIsolated + 1) :
          NonMaliciousUpdateResolveView_patch(u, pk, "soc")
    \/ \E u \in User, pk \in 1..(MaxIsolated + 1) : NonMaliciousUpdateResolveView_put(u, pk)
    \/ \E u \in User, f \in ListFilters :
          CustomerAlertListView_get(u, f[1], f[2], f[3], NULL)
    \/ \E u \in User : NonMaliciousListView_get(u)

SpecIsolation == Init /\ [][NextIsolation]_vars

\* submissions for either endpoint of the table, and for one that is not there
HandoverData ==
    [title : {"t"}, description : {"d"},
     endpoint_id : {1, 2, 3}, source_name : {"SrcA"},
     customer_id : {1}, rules : {<< >>}]

\* ingest requests interleaved with analysts' PATCHes on the endpoints
NextHandover ==
    \/ \E data \in HandoverData :
          Len(alerts) < MaxWritten /\ ReceiveAlertView_create_is_valid(data)
    \/ \E r \in inflight : Len(alerts) < MaxWritten /\ ReceiveAlertView_create_save(r)
    \/ \E u \in {"ana", "cu1"}, pk \in {1, 2}, body \in EndpointBodies :
          EndpointDetailView_update(u, pk, body)

SpecHandover == Init /\ [][NextHandover]_vars

\* An alert table read by the dashboard.  A row was ingested at time t for
\* customer c from source s; a triaged row has since been validated as FP by
\* the analyst and given severity high.
StatRow(c, s, t, triaged) ==
    LET ingested == [create([title |-> "t", description |-> "d", endpoint |-> c,
                             source |-> s, customer |-> c, rules |-> {}])
                        EXCEPT !.timestamp = t]
    IN IF triaged
       THEN [Validated(ingested, "ana", "FP") EXCEPT !.severity = "high"]
       ELSE ingested

StatRows ==
    {StatRow(c, s, t, triaged) :
        c \in DOMAIN Customer, s \in DOMAIN Source, t \in 0..MaxStatTime, triaged \in BOOLEAN}

\* the tables of at most MaxStatAlerts rows, in order of ingestion
StatTables ==
    UNION {{tbl \in [1..n -> StatRows] :
                \A i \in 1..(n - 1) : tbl[i].timestamp <= tbl[i + 1].timestamp} :
           n \in 0..MaxStatAlerts}

InitStats ==
    /\ now = MaxStatTime
    /\ endpoints = [e \in {1, 2} |-> [customer |-> e, name |-> "host", is_active |-> TRUE]]
    /\ rules = << >>
    /\ strategies = << >>
    /\ alerts \in StatTables
    /\ resp = Response("none", 0, "")
    /\ inflight = {}

\* the dashboard requests: caller, company of the path, after, before
StatRequests ==
    {<<"ana", "Acme">>, <<"ana", "Nope">>, <<"cu1", "Nope">>}
    \X {<<NULL, NULL>>, <<"1", NULL>>, <<NULL, "1">>, <<"x", NULL>>}

\* the alert dashboard, one request at a time, over a table that stands still
NextStats ==
    \/ \E q \in StatRequests :
          /\ inflight = {}
          /\ CustomerAlertDashboardView_get_parse(q[1][1], q[1][2], q[2][1], q[2][2])
    \/ \E r \in inflight : CustomerAlertDashboardView_get_query(r)

SpecStats == InitStats /\ [][NextStats]_vars

\* the endpoint dashboard while analysts patch endpoints
NextDash ==
    \/ \E u \in {"ana", "cu1"}, company_name \in CompanyNames :
          CustomerEndpointDashboardView_get_active(u, company_name)
    \/ \E r \in inflight : CustomerEndpointDashboardView_get_inactive(r)
    \/ \E r \in inflight : CustomerEndpointDashboardView_get_total(r)
    \/ \E pk \in {1, 2}, body \in {<< >>, [is_active |-> TRUE]} :
          EndpointDetailView_update("ana", pk, body)

SpecDash == Init /\ [][NextDash]_vars

\* dashboards and PDF reports over a few alerts
NextReport ==
    \/ \E data \in PlainData : Len(alerts) < MaxReported /\ ReceiveAlertView_create(data)
    \/ \E pk \in 1..MaxReported :
          AlertDetailView_put("ana", pk, Required @@ [severity |-> "high"])
    \/ \E u \in {"ana", "cu1"}, company_name \in CompanyNames,
          after \in {NULL, "x"}, before \in {NULL, "0"} :
          CustomerAlertDashboardView_get_parse(u, company_name, after, before)
    \/ \E r \in inflight : CustomerAlertDashboardView_get_query(r)
    \/ \E u \in {"ana", "cu1"}, company_name \in CompanyNames,
          after \in {NULL, "x"}, before \in {NULL, "0"} :
          PDFReportView_get_customer(u, company_name, after, before)
    \/ \E r \in inflight : PDFReportView_get_report(r)

SpecReport == Init /\ [][NextReport]_vars

\* the life of an alert under every handler
Next ==
    \/ \E data \in PlainData : Len(alerts) < MaxTriaged /\ ReceiveAlertView_create(data)
    \/ \E u \in User, pk \in AlertPks, d \in DescriptionInputs : AlertDetailView_post(u, pk, d)
    \/ \E u \in User, pk \in AlertPks, c \in ClosureInputs : AlertDetailView_patch(u, pk, c)
    \/ \E u \in User, pk \in AlertPks, body \in AlertBodies : AlertDetailView_put(u, pk, body)
    \/ \E u \in User, pk \in AlertPks, m \in MitigationInputs :
          NonMaliciousUpdateResolveView_patch(u, pk, m)
    \/ \E u \in User, pk \in AlertPks : NonMaliciousUpdateResolveView_put(u, pk)
    \/ \E u \in User, body \in {<< >>, [is_active |-> TRUE]} :
          EndpointDetailView_update(u, 1, body)
    \/ Tick

Spec == Init /\ [][Next]_vars

\* ------------------------------------------------------------------ claims
Rank(status) == CASE status = "open" -> 0 [] status = "validated" -> 1 [] status = "resolved" -> 2

\* C1: no step moves an alert's status backwards along open -> validated ->
\* resolved, whichever handler takes the step.
C1_StatusOnlyForward ==
    [][\A pk \in DOMAIN alerts : Rank(alerts'[pk].status) >= Rank(alerts[pk].status)]_vars

\* C2: a submission that names an existing, inactive endpoint is rejected
\* with a validation error and persists no alert, whatever its other fields.
C2_InactiveEndpointRejected ==
    [][\A data \in IngestData :
          (/\ resp'.op = "receive"
           /\ data.endpoint_id \in DOMAIN endpoints
           /\ ~endpoints[data.endpoint_id].is_active
           /\ ReceiveAlertView_create(data))
          => (alerts' = alerts /\ resp'.status = 400)]_vars

\* C2 witness: a submission was rejected because its endpoint is inactive.
C2_Witness ==
    /\ resp.op = "receive"
    /\ resp.detail = "Endpoint is not active."
    /\ \E e \in DOMAIN endpoints : ~endpoints[e].is_active

\* C3: a submission with at least one rule name that matches no Rule row is
\* rejected and persists no alert.
C3_AllOrNothing ==
    [][\A data \in IngestData :
          (/\ resp'.op = "receive"
           /\ \E i \in DOMAIN data.rules : \A r \in DOMAIN rules : rules[r].name # data.rules[i]
           /\ ReceiveAlertView_create(data))
          => (alerts' = alerts /\ resp'.status # 201)]_vars

\* C4: a successful ingest appends one alert that is open, NA/NA, low, with
\* no validator, resolver or strategy, linked to the submitted endpoint,
\* source, customer and to the Rule rows the submitted names resolve to.
C4_IngestedAlertInitial ==
    [][\A data \in IngestData :
          (resp'.op = "receive" /\ resp'.status = 201 /\ ReceiveAlertView_create(data))
          => /\ Len(alerts') = Len(alerts) + 1
             /\ SubSeq(alerts', 1, Len(alerts)) = alerts
             /\ LET a == alerts'[Len(alerts')] IN
                /\ a.status = "open"
                /\ a.closure_code = "NA"
                /\ a.mitigation = "NA"
                /\ a.severity = "low"
                /\ a.validator = NULL /\ a.validated_at = NULL_TIME
                /\ a.resolver = NULL /\ a.resolved_at = NULL_TIME
                /\ a.mitigation_strategy = NULL_FK
                /\ a.endpoint = data.endpoint_id
                /\ Source[a.source].name = data.source_name
                /\ a.customer = data.customer_id
                /\ a.rules = {r \in DOMAIN rules :
                                \E i \in DOMAIN data.rules : rules[r].name = data.rules[i]}]_vars

\* C4 witness: an ingest succeeded for an endpoint of another customer and
\* linked rules.
C4_Witness ==
    /\ resp.op = "receive" /\ resp.status = 201
    /\ alerts # << >>
    /\ alerts[Len(alerts)].rules # {}
    /\ alerts[Len(alerts)].customer # endpoints[alerts[Len(alerts)].endpoint].customer

\* C5: a closure-code PATCH by an analyst with a recognized code on an
\* existing alert leaves it with that code, status validated, the analyst as
\* validator and the current time as validated_at.
C5_ClosureTransition ==
    [][\A u \in User, pk \in DOMAIN alerts, c \in CLOSURE_CODE_CHOICES :
          (resp'.op = "closure" /\ IsAnalyst(u) /\ AlertDetailView_patch(u, pk, c))
          => /\ alerts'[pk].closure_code = c
             /\ alerts'[pk].status = "validated"
             /\ alerts'[pk].validator = u
             /\ alerts'[pk].validated_at = now
             /\ resp'.status = 200]_vars

\* C5 witness: a closure-code PATCH succeeded and the alert carries FP.
C5_Witness ==
    /\ resp.op = "closure" /\ resp.status = 200
    /\ \E pk \in DOMAIN alerts :
          /\ alerts[pk].closure_code = "FP"
          /\ alerts[pk].status = "validated"
          /\ alerts[pk].validator = "ana"
          /\ alerts[pk].validated_at = now

\* C6: a closure-code PATCH with an unrecognized or absent code is answered
\* with an error and changes no field of any alert.
C6_InvalidClosureRejected ==
    [][\A u \in User, pk \in AlertPks, c \in ClosureInputs \ CLOSURE_CODE_CHOICES :
          (resp'.op = "closure" /\ AlertDetailView_patch(u, pk, c))
          => (alerts' = alerts /\ resp'.status \in {400, 403})]_vars

\* C6 witness: an analyst's PATCH on an existing alert was rejected as an
\* invalid closure code.
C6_Witness ==
    /\ resp.op = "closure" /\ resp.status = 400
    /\ alerts # << >>

\* C7: mitigation changes only by select-mitigation on an alert that is TPNM
\* at that moment; select-mitigation on an alert that is not TPNM is answered
\* not found and changes nothing.
C7_MitigationOnlyBySelect ==
    [][/\ \A pk \in DOMAIN alerts :
            alerts'[pk].mitigation # alerts[pk].mitigation
            => (resp'.op = "select" /\ alerts[pk].closure_code = "TPNM")
       /\ \A u \in User, pk \in DOMAIN alerts, m \in MitigationInputs :
            (/\ resp'.op = "select"
             /\ IsCustomer(u)
             /\ alerts[pk].closure_code # "TPNM"
             /\ NonMaliciousUpdateResolveView_patch(u, pk, m))
            => (alerts' = alerts /\ resp'.status = 404)]_vars

\* C8: select-mitigation with a value outside NA/soc/customer (absent and
\* empty included) is rejected and leaves mitigation alone, and every alert's
\* mitigation is one of NA, soc, customer.
C8_MitigationInChoices ==
    [][/\ \A u \in User, pk \in AlertPks, m \in MitigationInputs \ MITIGATION_CHOICES :
            (resp'.op = "select" /\ NonMaliciousUpdateResolveView_patch(u, pk, m))
            => (alerts' = alerts /\ resp'.status \in {400, 403, 404, 500})
       /\ \A pk \in DOMAIN alerts' : alerts'[pk].mitigation \in MITIGATION_CHOICES]_vars

\* C9: an endpoint that is inactive stays inactive under every request.
C9_DeactivationOneWay ==
    [][\A e \in DOMAIN endpoints :
          ~endpoints[e].is_active => ~endpoints'[e].is_active]_vars

\* C10: after an analyst's PATCH on an existing endpoint the endpoint is
\* inactive, whatever the body.
C10_PatchDeactivates ==
    [][\A u \in User, pk \in DOMAIN endpoints, body \in EndpointBodies :
          (resp'.op = "endpoint" /\ IsAnalyst(u) /\ EndpointDetailView_update(u, pk, body))
          => ~endpoints'[pk].is_active]_vars

\* C11: no two MitigationStrategy rows hold the same description, and two
\* alerts whose attached strategies read the same reference one row.
C11_StrategiesDeduplicated ==
    /\ \A i, j \in DOMAIN strategies :
          strategies[i].description = strategies[j].description => i = j
    /\ \A p, q \in DOMAIN alerts :
          (/\ alerts[p].mitigation_strategy # NULL_FK
           /\ alerts[q].mitigation_strategy # NULL_FK
           /\ strategies[alerts[p].mitigation_strategy].description
                = strategies[alerts[q].mitigation_strategy].description)
          => alerts[p].mitigation_strategy = alerts[q].mitigation_strategy

\* C12: closure_code changes only in a closure-code transition: attach,
\* select-mitigation, resolve, endpoint deactivation and every other update
\* the analyst alert detail accepts leave it alone.
C12_ClosureCodeOnlyByClosure ==
    [][\A pk \in DOMAIN alerts :
          alerts'[pk].closure_code # alerts[pk].closure_code => resp'.op = "closure"]_vars

\* C13: validated_at with validator, and resolved_at with resolver, are
\* written once: a stamp that holds a value is changed by no later step.
C13_StampsWrittenOnce ==
    [][\A pk \in DOMAIN alerts :
          /\ alerts[pk].validated_at # NULL_TIME
             => /\ alerts'[pk].validated_at = alerts[pk].validated_at
                /\ alerts'[pk].validator = alerts[pk].validator
          /\ alerts[pk].resolved_at # NULL_TIME
             => /\ alerts'[pk].resolved_at = alerts[pk].resolved_at
                /\ alerts'[pk].resolver = alerts[pk].resolver]_vars

\* C14: a repeated transition overwrites its stamp: a closure-code PATCH on
\* an already validated alert succeeds and leaves the later call's code,
\* analyst and time; a resolve on an already resolved alert of the caller's
\* non-malicious set succeeds and leaves the later call's customer and time.
C14_RepeatOverwrites ==
    [][/\ \A u \in User, pk \in DOMAIN alerts, c \in CLOSURE_CODE_CHOICES :
            (/\ resp'.op = "closure"
             /\ IsAnalyst(u)
             /\ alerts[pk].status = "validated"
             /\ AlertDetailView_patch(u, pk, c))
            => /\ resp'.status = 200
               /\ alerts'[pk].closure_code = c
               /\ alerts'[pk].validator = u
               /\ alerts'[pk].validated_at = now
       /\ \A u \in User, pk \in DOMAIN alerts :
            (/\ resp'.op = "resolve"
             /\ IsCustomer(u)
             /\ alerts[pk].status = "resolved"
             /\ pk \in NonMalicious(u)
             /\ NonMaliciousUpdateResolveView_put(u, pk))
            => /\ resp'.status = 200
               /\ alerts'[pk].status = "resolved"
               /\ alerts'[pk].resolver = u
               /\ alerts'[pk].resolved_at = now]_vars

\* C14 witness: an alert that had been validated and resolved earlier has
\* just been given another closure code, and carries the later call's time.
C14_Witness ==
    /\ resp.op = "closure" /\ resp.status = 200
    /\ \E pk \in DOMAIN alerts :
          /\ alerts[pk].closure_code = "FP"
          /\ alerts[pk].validated_at = now
          /\ alerts[pk].resolved_at # NULL_TIME
          /\ alerts[pk].resolved_at < alerts[pk].validated_at

\* C15: every mutating request on an alert is one atomic read-validate-write
\* step, so two concurrent requests leave what running them one after the
\* other leaves: the row a request saves is the row its operation makes of
\* the alert as stored at that moment, and no other request's write is lost.
C15_AtomicReadValidateWrite ==
    [][\A r \in inflight :
          (inflight' = inflight \ {r} /\ alerts' # alerts)
          => alerts'[r.pk] =
                CASE r.op = "attach" ->
                        [alerts[r.pk] EXCEPT
                            !.mitigation_strategy = alerts'[r.pk].mitigation_strategy]
                  [] r.op = "closure" -> Validated(alerts[r.pk], r.u, r.closure_code)
                  [] r.op = "resolve" -> Resolved(alerts[r.pk], r.u)]_vars

\* C16: a PDF report request with well-formed bounds by a customer completes
\* with a document, whatever the alerts in the window: none, or alerts of
\* zero, one or more severities.
C16_PdfAlwaysCompletes ==
    [][\A r \in inflight :
          (/\ resp'.op = "pdf"
           /\ r.op = "pdf"
           /\ BoundsValid(r.after_text, r.before_text)
           /\ PDFReportView_get_report(r))
          => resp'.status = 200]_vars

\* C20: in the alert dashboard and in the PDF report a request with a
\* malformed after or before is answered with the date rejection by a handler
\* that has run no query, and an analyst's request that names an unknown
\* company is answered not found.
C20_MalformedBoundRejectedFirst ==
    [][/\ \A u \in User, company_name \in CompanyNames, after, before \in BoundTexts :
            (/\ resp'.op = "alertstats"
             /\ ~BoundsValid(after, before)
             /\ CustomerAlertDashboardView_get_parse(u, company_name, after, before))
            => (resp'.status = 400 /\ inflight' = inflight)
       /\ \A r \in inflight :
            (/\ resp'.op = "alertstats"
             /\ r.op = "alertstats"
             /\ IsAnalyst(r.u)
             /\ CustomersNamed(r.company_name) = {}
             /\ CustomerAlertDashboardView_get_query(r))
            => resp'.status = 404
       /\ \A u \in User, company_name \in CompanyNames, after, before \in BoundTexts :
            (/\ resp'.op = "pdf"
             /\ inflight' = inflight
             /\ PDFReportView_get_customer(u, company_name, after, before))
            => IF ~BoundsValid(after, before)
               THEN resp'.status = 400
               ELSE (IsAnalyst(u) /\ CustomersNamed(company_name) = {}) => resp'.status = 404
       /\ \A r \in inflight :
            (/\ resp'.op = "pdf"
             /\ r.op = "pdf"
             /\ ~BoundsValid(r.after_text, r.before_text)
             /\ PDFReportView_get_report(r))
            => (resp'.status = 400 /\ r.queries = 0)]_vars

\* C18: in every endpoint-stats response active_endpoints +
\* inactive_endpoints = total_endpoints, also when endpoint deactivations run
\* concurrently with the request.
C18_CountsAddUp ==
    (resp.op = "stats" /\ resp.status = 200)
    => resp.detail.active_endpoints + resp.detail.inactive_endpoints
          = resp.detail.total_endpoints

\* C18 as amended: a response whose two counts are still those of the table
\* when it is sent (no endpoint write has landed between the request's count
\* queries, or none that is still visible) has active_endpoints +
\* inactive_endpoints = total_endpoints.
C18_CountsAddUpWhenCurrent ==
    [][\A r \in inflight :
          (/\ resp'.op = "stats"
           /\ r.op = "stats"
           /\ r.pc = "total"
           /\ r.active_count = EndpointCount(r.customer, TRUE)
           /\ r.inactive_count = EndpointCount(r.customer, FALSE)
           /\ CustomerEndpointDashboardView_get_total(r))
          => resp'.detail.active_endpoints + resp'.detail.inactive_endpoints
                = resp'.detail.total_endpoints]_vars

\* C18 witness: a response that counts the customer's one endpoint as
\* inactive while it is inactive, and its counts add up.
C18_Witness ==
    /\ resp.op = "stats" /\ resp.status = 200
    /\ resp.detail.inactive_endpoints = 1
    /\ resp.detail.active_endpoints = 0
    /\ resp.detail.total_endpoints = 1
    /\ \E e \in DOMAIN endpoints : ~endpoints[e].is_active

\* C17: customer isolation.  Every alert a customer listing returns belongs
\* to the caller's customer, whatever the filter parameters, and a
\* select-mitigation or resolve by a customer caller, whatever the pk,
\* changes no alert of another customer.
C17_CustomerIsolation ==
    [][/\ \A u \in User, f \in ListFilters :
            (/\ resp'.op = "list"
             /\ resp'.status = 200
             /\ CustomerAlertListView_get(u, f[1], f[2], f[3], NULL))
            => \A pk \in resp'.detail : alerts[pk].customer = UserProfile[u].customer
       /\ \A u \in User :
            (/\ resp'.op = "nonmalicious"
             /\ resp'.status = 200
             /\ NonMaliciousListView_get(u))
            => \A pk \in resp'.detail : alerts[pk].customer = UserProfile[u].customer
       /\ \A u \in User, pk \in 1..(MaxIsolated + 1) :
            (/\ alerts' # alerts
             /\ \/ resp'.op = "select" /\ NonMaliciousUpdateResolveView_patch(u, pk, "soc")
                \/ resp'.op = "resolve" /\ NonMaliciousUpdateResolveView_put(u, pk))
            => \A q \in DOMAIN alerts :
                  alerts'[q] # alerts[q]
                  => (q = pk /\ alerts[q].customer = UserProfile[u].customer)]_vars

\* C17 witness: cu1 has resolved an alert of customer 1 while an alert of
\* customer 2 stands validated as TPNM, untouched.
C17_Witness ==
    /\ resp.op = "resolve" /\ resp.status = 200
    /\ \E p, q \in DOMAIN alerts :
          /\ alerts[p].customer = 1 /\ alerts[p].resolver = "cu1"
          /\ alerts[q].customer = 2 /\ alerts[q].closure_code = "TPNM"
          /\ alerts[q].status = "validated" /\ alerts[q].resolver = NULL

\* C19: in an alert dashboard response the counts of each grouping (by
\* status, severity, day, source name) sum to the number of the customer's
\* alerts inside [after, before], and no group has count zero.
C19_GroupCountsSumToTotal ==
    [][\A r \in inflight :
          (/\ resp'.op = "alertstats"
           /\ resp'.status = 200
           /\ r.op = "alertstats"
           /\ CustomerAlertDashboardView_get_query(r))
          => LET RECURSIVE Sum(_, _)
                 Sum(g, keys) ==
                     IF keys = {} THEN 0
                     ELSE LET k == CHOOSE x \in keys : TRUE
                          IN g[k] + Sum(g, keys \ {k})
                 customer == IF IsAnalyst(r.u)
                             THEN CHOOSE c \in DOMAIN Customer :
                                     Customer[c].company_name = r.company_name
                             ELSE UserProfile[r.u].customer
                 total == Cardinality({pk \in DOMAIN alerts :
                                          /\ alerts[pk].customer = customer
                                          /\ r.after <= alerts[pk].timestamp
                                          /\ alerts[pk].timestamp <= r.before})
                 Sound(g) == Sum(g, DOMAIN g) = total /\ \A k \in DOMAIN g : g[k] > 0
             IN /\ Sound(resp'.detail.status_stats)
                /\ Sound(resp'.detail.severity_stats)
                /\ Sound(resp'.detail.event_counts)
                /\ Sound(resp'.detail.source_stats)]_vars

\* C19 witness: a response over two alerts of the customer that differ in
\* status, severity, day and source, out of a table that holds both.
C19_Witness ==
    /\ resp.op = "alertstats" /\ resp.status = 200
    /\ Len(alerts) = 2
    /\ Cardinality(DOMAIN resp.detail.status_stats) = 2
    /\ Cardinality(DOMAIN resp.detail.severity_stats) = 2
    /\ Cardinality(DOMAIN resp.detail.event_counts) = 2
    /\ Cardinality(DOMAIN resp.detail.source_stats) = 2

\* C21: in every reachable state an alert with status resolved has closure
\* code TPNM and a validated_at stamp.
C21_ResolvedIsValidatedTPNM ==
    \A pk \in DOMAIN alerts :
        alerts[pk].status = "resolved"
        => (alerts[pk].closure_code = "TPNM" /\ alerts[pk].validated_at # NULL_TIME)

\* C22: in every reachable state resolved_at and resolver are set exactly on
\* resolved alerts, and validated_at and validator exactly on validated or
\* resolved alerts.
C22_StampsMatchStatus ==
    \A pk \in DOMAIN alerts :
        /\ (alerts[pk].resolved_at # NULL_TIME) <=> (alerts[pk].status = "resolved")
        /\ (alerts[pk].resolver # NULL) <=> (alerts[pk].status = "resolved")
        /\ (alerts[pk].validated_at # NULL_TIME) <=> (alerts[pk].status \in {"validated", "resolved"})
        /\ (alerts[pk].validator # NULL) <=> (alerts[pk].status \in {"validated", "resolved"})

\* C23: no alert row is written for an endpoint that is inactive at the
\* moment of the write, however an ingest request and a PATCH on the same
\* endpoint are interleaved.
C23_NoAlertForInactiveEndpoint ==
    [][Len(alerts') > Len(alerts)
       => endpoints[alerts'[Len(alerts')].endpoint].is_active]_vars

====
